---- MODULE Spec2Model ----
(***************************************************************************)
(* Model of src/main.py: the market-data API of the stock analysis         *)
(* assistant.  The snapshot cache (CACHE, get_cached_market_data) and the  *)
(* ranking endpoint get_rps_top that reads it are modelled as request      *)
(* threads stepping through the function line by line; FastAPI runs sync   *)
(* endpoints in a thread pool, so requests interleave.                     *)
(***************************************************************************)
EXTENDS Integers, Sequences, FiniteSets, TLC

\* ------------------------------------------------------------------ bounds
MaxRequests == 3
StartTime == 1000
Horizon == 602
MaxConstLen == 6

\* ------------------------------------------------------- program constants
cache_duration == 600

\* The worker threads of the pool that serve requests.
Threads == {1, 2}

\* Clock advances between steps: half a cache window, and one second more,
\* so that elapsed times of exactly 600 s and of 601 s both occur.
Ticks == {cache_duration \div 2, cache_duration \div 2 + 1}

None == [none |-> TRUE]

\* ------------------------------------------------------- upstream snapshots
\* Column names of ak.stock_zh_a_spot_em():
\*   "code" = 代码, "name" = 名称, "chg60" = 60日涨跌幅, "chgYTD" = 年初至今涨跌幅.
\* A cell is <<v>> for a number v and <<>> for NaN.
NaN == <<>>

Row(c, n, a, b) == [code |-> c, name |-> n, chg60 |-> a, chgYTD |-> b]

Row3(c, n, a) == [code |-> c, name |-> n, chg60 |-> a]

AllCols == {"code", "name", "chg60", "chgYTD"}

FrameA ==
    [cols |-> AllCols,
     rows |-> << Row("s1", "n1", <<5>>, NaN), Row("s2", "n2", NaN, <<2>>),
                 Row("s3", "n3", <<9>>, <<2>>), Row("s4", "n4", <<1>>, <<7>>) >>]

FrameB ==
    [cols |-> {"code", "name", "chg60"},
     rows |-> << Row3("s1", "n1", <<0 - 4>>), Row3("s2", "n2", <<3>>) >>]

FrameC == [cols |-> AllCols, rows |-> << >>]

Frames == {FrameA, FrameB, FrameC}

VARIABLES
    CACHE,          \* the module-level dict
    now,            \* time.time()
    nreq,           \* requests started so far
    pc,             \* per request thread: position in get_rps_top
    reqId,          \* per thread: serial number of its request
    current_time,   \* per thread: local of get_cached_market_data
    df,             \* per thread: local df of get_rps_top (line 96)
    resp,           \* per thread: the HTTP response
    args,           \* per thread: [period, limit] of the request
    ncalls,         \* per thread: upstream calls the request has issued
    outcome,        \* per thread: "none" | "ok" | "fail": its upstream call
    cache0,         \* per thread: CACHE as it was when the request started
    rpc,            \* Retry Wrapper: position
    attempt,        \* Retry Wrapper: attempts made
    delays,         \* Retry Wrapper: fixed delays slept
    rlog,           \* Retry Wrapper: diagnostics logged
    trace,          \* Retry Wrapper: what the upstream call did at each attempt
    rresult,        \* Retry Wrapper: what the wrapper returned or raised
    ppc,            \* get_stock_price: position
    pargs,          \* get_stock_price: [code, detail]
    result,         \* get_stock_price: the local dict result
    presp,          \* get_stock_price: the HTTP response
    pcalls,         \* get_stock_price: upstream calls made by the request
    hist,           \* get_stock_price: what ak.stock_zh_a_hist did
    fund,           \* get_stock_price: what ak.stock_individual_fund_flow did
    bpc,            \* per-symbol bundle endpoint: position
    bcode,          \* per-symbol bundle endpoint: the requested code
    bsnap,          \* per-symbol bundle endpoint: codes of the realtime snapshot
    bbars,          \* per-symbol bundle endpoint: bars of the fetched history
    bresp,          \* per-symbol bundle endpoint: the HTTP response
    sresp           \* market_stats: the HTTP response

cacheVars == << CACHE, now, nreq, pc, reqId, current_time, df, resp, args,
                ncalls, outcome, cache0 >>

retryVars == << rpc, attempt, delays, rlog, trace, rresult >>

priceVars == << ppc, pargs, result, presp, pcalls, hist, fund >>

bundleVars == << bpc, bcode, bsnap, bbars, bresp >>

statsVars == << sresp >>

vars == << cacheVars, retryVars, priceVars, bundleVars, statsVars >>

Init ==
    /\ CACHE = [market_data |-> None, last_update |-> 0,
                cache_duration |-> cache_duration]
    /\ now = StartTime
    /\ nreq = 0
    /\ pc = [t \in Threads |-> "idle"]
    /\ reqId = [t \in Threads |-> 0]
    /\ current_time = [t \in Threads |-> 0]
    /\ df = [t \in Threads |-> None]
    /\ resp = [t \in Threads |-> None]
    /\ args = [t \in Threads |-> None]
    /\ ncalls = [t \in Threads |-> 0]
    /\ outcome = [t \in Threads |-> "none"]
    /\ cache0 = [t \in Threads |-> None]
    /\ rpc = "idle"
    /\ attempt = 0
    /\ delays = 0
    /\ rlog = << >>
    /\ trace = << >>
    /\ rresult = None
    /\ ppc = "idle"
    /\ pargs = None
    /\ result = None
    /\ presp = None
    /\ pcalls = << >>
    /\ hist = None
    /\ fund = None
    /\ bpc = "idle"
    /\ bcode = None
    /\ bsnap = None
    /\ bbars = None
    /\ bresp = None
    /\ sresp = None

\* ----------------------------------------------- get_cached_market_data
\* line 29, left operand: CACHE["market_data"] is None
IsNone(md) == md = None

\* Faulty variants of Expired: the boundary taken as expired; the operands swapped.
ExpiredInclusive(ct, cache) == ct - cache.last_update >= cache.cache_duration

ExpiredSwapped(ct, cache) == cache.last_update - ct > cache.cache_duration

\* line 29, right operand: current_time - CACHE["last_update"] > CACHE["cache_duration"]
Expired(ct, cache) == ct - cache.last_update > cache.cache_duration

\* line 36-37: the HTTPException raised when nothing was ever fetched
DataSourceError == [kind |-> "http_error", status |-> 500, detail |-> "data source fetch failed"]

\* get_rps_top is entered (line 96) and calls get_cached_market_data, whose
\* first statement reads the clock (line 28).
Request(t) ==
    /\ UNCHANGED << retryVars, priceVars, bundleVars, statsVars >>
    /\ pc[t] = "idle"
    /\ nreq < MaxRequests
    /\ nreq' = nreq + 1
    /\ reqId' = [reqId EXCEPT ![t] = nreq + 1]
    /\ current_time' = [current_time EXCEPT ![t] = now]
    /\ cache0' = [cache0 EXCEPT ![t] = CACHE]
    /\ pc' = [pc EXCEPT ![t] = "check_md"]
    /\ UNCHANGED << CACHE, now, df, resp, args, ncalls, outcome >>

\* A request that starts only when no other request is in progress.
RequestAlone(t) ==
    /\ \A u \in Threads : pc[u] = "idle"
    /\ Request(t)

\* line 29: the first operand of the "or"; when it is true the body is entered
\* and the upstream call of line 32 is issued.
CheckMd(t) ==
    /\ UNCHANGED << retryVars, priceVars, bundleVars, statsVars >>
    /\ pc[t] = "check_md"
    /\ IF IsNone(CACHE.market_data)
         THEN /\ pc' = [pc EXCEPT ![t] = "fetch"]
              /\ ncalls' = [ncalls EXCEPT ![t] = @ + 1]
         ELSE /\ pc' = [pc EXCEPT ![t] = "check_lu"]
              /\ UNCHANGED ncalls
    /\ UNCHANGED << CACHE, now, nreq, reqId, current_time, df, resp, args, outcome, cache0 >>

\* line 29: the second operand.
CheckLu(t) ==
    /\ UNCHANGED << retryVars, priceVars, bundleVars, statsVars >>
    /\ pc[t] = "check_lu"
    /\ IF Expired(current_time[t], CACHE)
         THEN /\ pc' = [pc EXCEPT ![t] = "fetch"]
              /\ ncalls' = [ncalls EXCEPT ![t] = @ + 1]
         ELSE /\ pc' = [pc EXCEPT ![t] = "ret"]
              /\ UNCHANGED ncalls
    /\ UNCHANGED << CACHE, now, nreq, reqId, current_time, df, resp, args, outcome, cache0 >>

\* lines 32-33: ak.stock_zh_a_spot_em() returns a new DataFrame object, which
\* is stored at once; the request's serial number stands for the object's
\* identity.  Until then the upstream call is in progress.
FetchOk(t, f) ==
    /\ UNCHANGED << retryVars, priceVars, bundleVars, statsVars >>
    /\ pc[t] = "fetch"
    /\ CACHE' = [CACHE EXCEPT !.market_data = [id |-> reqId[t], cols |-> f.cols, rows |-> f.rows]]
    /\ outcome' = [outcome EXCEPT ![t] = "ok"]
    /\ pc' = [pc EXCEPT ![t] = "store_lu"]
    /\ UNCHANGED << now, nreq, reqId, current_time, df, resp, args, ncalls, cache0 >>

\* Faulty variant of StoreLu: the clock is read again after the fetch.
StoreLuReadsClock(t) ==
    /\ UNCHANGED << retryVars, priceVars, bundleVars, statsVars >>
    /\ pc[t] = "store_lu"
    /\ CACHE' = [CACHE EXCEPT !.last_update = now]
    /\ pc' = [pc EXCEPT ![t] = "ret"]
    /\ UNCHANGED << now, nreq, reqId, current_time, df, resp, args, ncalls, outcome, cache0 >>

\* line 34
StoreLu(t) ==
    /\ UNCHANGED << retryVars, priceVars, bundleVars, statsVars >>
    /\ pc[t] = "store_lu"
    /\ CACHE' = [CACHE EXCEPT !.last_update = current_time[t]]
    /\ pc' = [pc EXCEPT ![t] = "ret"]
    /\ UNCHANGED << now, nreq, reqId, current_time, df, resp, args, ncalls, outcome, cache0 >>

\* Faulty variants of FetchFail: the error is raised even when a snapshot is cached;
\* the timestamp is refreshed although the fetch failed.
FetchFailAlwaysRaises(t) ==
    /\ UNCHANGED << retryVars, priceVars, bundleVars, statsVars >>
    /\ pc[t] = "fetch"
    /\ outcome' = [outcome EXCEPT ![t] = "fail"]
    /\ resp' = [resp EXCEPT ![t] = DataSourceError]
    /\ pc' = [pc EXCEPT ![t] = "done"]
    /\ UNCHANGED << CACHE, now, nreq, reqId, current_time, df, args, ncalls, cache0 >>

FetchFailStampsTime(t) ==
    /\ UNCHANGED << retryVars, priceVars, bundleVars, statsVars >>
    /\ pc[t] = "fetch"
    /\ outcome' = [outcome EXCEPT ![t] = "fail"]
    /\ CACHE' = [CACHE EXCEPT !.last_update = current_time[t]]
    /\ IF IsNone(CACHE.market_data)
         THEN /\ resp' = [resp EXCEPT ![t] = DataSourceError]
              /\ pc' = [pc EXCEPT ![t] = "done"]
         ELSE /\ pc' = [pc EXCEPT ![t] = "ret"]
              /\ UNCHANGED resp
    /\ UNCHANGED << now, nreq, reqId, current_time, df, args, ncalls, cache0 >>

\* line 32 raises and the except clause runs (lines 35-37): with nothing
\* cached the HTTPException leaves get_cached_market_data and get_rps_top and
\* becomes the response; otherwise control falls through to line 38.
FetchFail(t) ==
    /\ UNCHANGED << retryVars, priceVars, bundleVars, statsVars >>
    /\ pc[t] = "fetch"
    /\ outcome' = [outcome EXCEPT ![t] = "fail"]
    /\ IF IsNone(CACHE.market_data)
         THEN /\ resp' = [resp EXCEPT ![t] = DataSourceError]
              /\ pc' = [pc EXCEPT ![t] = "done"]
         ELSE /\ pc' = [pc EXCEPT ![t] = "ret"]
              /\ UNCHANGED resp
    /\ UNCHANGED << CACHE, now, nreq, reqId, current_time, df, args, ncalls, cache0 >>

\* ------------------------------------------------------------ get_rps_top
Periods == {50, 60, 61, 250}

Limits == {0 - 1, 0, 2, 100}

Min(a, b) == IF a <= b THEN a ELSE b

Max(a, b) == IF a >= b THEN a ELSE b

\* lines 99-102
SortCol(period) == IF period <= 60 THEN "chg60" ELSE "chgYTD"

\* line 108: DataFrame.dropna(subset=[col]) keeps, in order, the rows whose
\* cell in col is not NaN.
DropNa(rows, col) == SelectSeq(rows, LAMBDA r : r[col] # NaN)

\* line 108: DataFrame.sort_values(by=col, ascending=False).  The default
\* sort kind is not stable, so rows with equal values may come out in any
\* order: every descending arrangement of the rows is a possible result.
SortValuesDesc(rows, col) ==
    LET n == Len(rows)
        Perm == {p \in [1..n -> 1..n] : \A i, j \in 1..n : i # j => p[i] # p[j]}
    IN  {[i \in 1..n |-> rows[p[i]]] : p \in
            {q \in Perm : \A i \in 1..n : \A j \in 1..n :
                 i < j => rows[q[i]][col][1] >= rows[q[j]][col][1]}}

\* line 111: DataFrame.head(n): the first n rows, and for a negative n all
\* rows but the last -n.
DfHead(rows, n) ==
    IF n >= 0 THEN SubSeq(rows, 1, Min(n, Len(rows)))
              ELSE SubSeq(rows, 1, Max(0, Len(rows) + n))

\* lines 115-119
Entry(row, col) ==
    [code |-> row["code"], name |-> row["name"], increase_rate |-> row[col][1]]

\* Faulty variant of MissingColumn: the error raised as an HTTPException(404).
MissingColumnRaised(col) == [kind |-> "http_error", status |-> 404, error |-> col]

\* line 105: returned as an ordinary (HTTP 200) body
MissingColumn(col) == [kind |-> "missing_column", status |-> 200, error |-> col]

\* a KeyError on row["代码"] or row["名称"] is not handled: HTTP 500
Unhandled == [kind |-> "http_error", status |-> 500, detail |-> "Internal Server Error"]

\* line 121
Ranking(period, top, col) ==
    [kind |-> "ranking", status |-> 200, period |-> period, count |-> Len(top),
     top_stocks |-> [i \in 1..Len(top) |-> Entry(top[i], col)]]

\* lines 99-121 for one possible result df_sorted of line 108
RankResponse(frame, period, limit, df_sorted) ==
    LET col == SortCol(period)
        top == DfHead(df_sorted, limit)
    IN  IF col \notin frame.cols THEN MissingColumn(col)
        ELSE IF top # << >> /\ ~({"code", "name"} \subseteq frame.cols) THEN Unhandled
        ELSE Ranking(period, top, col)

\* Faulty variant of Rank: dropna and sort_values work in place on the cached frame.
RankInPlace(t, period, limit) ==
    /\ UNCHANGED << retryVars, priceVars, bundleVars, statsVars >>
    /\ pc[t] = "ret"
    /\ LET d == CACHE.market_data
           col == SortCol(period)
           sorted == IF col \in d.cols
                       THEN SortValuesDesc(DropNa(d.rows, col), col)
                       ELSE {<< >>}
       IN  /\ df' = [df EXCEPT ![t] = d]
           /\ \E df_sorted \in sorted :
                 /\ resp' = [resp EXCEPT ![t] = RankResponse(d, period, limit, df_sorted)]
                 /\ CACHE' = IF col \in d.cols
                               THEN [CACHE EXCEPT !.market_data.rows = df_sorted]
                               ELSE CACHE
    /\ args' = [args EXCEPT ![t] = [period |-> period, limit |-> limit]]
    /\ pc' = [pc EXCEPT ![t] = "done"]
    /\ UNCHANGED << now, nreq, reqId, current_time, ncalls, outcome, cache0 >>

\* line 38 and lines 96-121: get_cached_market_data returns the cached
\* object, which get_rps_top ranks.  args records the request's parameters.
Rank(t, period, limit) ==
    /\ UNCHANGED << retryVars, priceVars, bundleVars, statsVars >>
    /\ pc[t] = "ret"
    /\ LET d == CACHE.market_data
           col == SortCol(period)
           sorted == IF col \in d.cols
                       THEN SortValuesDesc(DropNa(d.rows, col), col)
                       ELSE {<< >>}
       IN  /\ df' = [df EXCEPT ![t] = d]
           /\ \E df_sorted \in sorted :
                 resp' = [resp EXCEPT ![t] = RankResponse(d, period, limit, df_sorted)]
    /\ args' = [args EXCEPT ![t] = [period |-> period, limit |-> limit]]
    /\ pc' = [pc EXCEPT ![t] = "done"]
    /\ UNCHANGED << CACHE, now, nreq, reqId, current_time, ncalls, outcome, cache0 >>

\* The response has been sent; the thread returns to the pool.
Finish(t) ==
    /\ UNCHANGED << retryVars, priceVars, bundleVars, statsVars >>
    /\ pc[t] = "done"
    /\ pc' = [pc EXCEPT ![t] = "idle"]
    /\ reqId' = [reqId EXCEPT ![t] = 0]
    /\ current_time' = [current_time EXCEPT ![t] = 0]
    /\ df' = [df EXCEPT ![t] = None]
    /\ resp' = [resp EXCEPT ![t] = None]
    /\ args' = [args EXCEPT ![t] = None]
    /\ ncalls' = [ncalls EXCEPT ![t] = 0]
    /\ outcome' = [outcome EXCEPT ![t] = "none"]
    /\ cache0' = [cache0 EXCEPT ![t] = None]
    /\ UNCHANGED << CACHE, now, nreq >>

\* time.time() moves on.
Tick ==
    /\ UNCHANGED << retryVars, priceVars, bundleVars, statsVars >>
    /\ \E d \in Ticks :
          /\ now + d <= StartTime + Horizon
          /\ now' = now + d
    /\ UNCHANGED << CACHE, nreq, pc, reqId, current_time, df, resp, args,
                    ncalls, outcome, cache0 >>

\* Requests served concurrently by the thread pool.  The upstream content and
\* the request parameters are kept to one case each here; SpecSeq varies them.
Next ==
    \/ \E t \in Threads : Request(t)
    \/ \E t \in Threads : CheckMd(t)
    \/ \E t \in Threads : CheckLu(t)
    \/ \E t \in Threads : \E f \in {FrameA, FrameB} : FetchOk(t, f)
    \/ \E t \in Threads : FetchFail(t)
    \/ \E t \in Threads : StoreLu(t)
    \/ \E t \in Threads : Rank(t, 60, 2)
    \/ \E t \in Threads : Finish(t)
    \/ Tick

Spec == Init /\ [][Next]_vars

\* Requests served one at a time (single-threaded access).
NextSeq ==
    \/ \E t \in Threads : RequestAlone(t)
    \/ \E t \in Threads : CheckMd(t)
    \/ \E t \in Threads : CheckLu(t)
    \/ \E t \in Threads : \E f \in Frames : FetchOk(t, f)
    \/ \E t \in Threads : FetchFail(t)
    \/ \E t \in Threads : StoreLu(t)
    \/ \E t \in Threads : \E period \in Periods, limit \in Limits : Rank(t, period, limit)
    \/ \E t \in Threads : Finish(t)
    \/ Tick

SpecSeq == Init /\ [][NextSeq]_vars

\* ---------------------------------------------------------- get_stock_price
\* Exact rational arithmetic for the EMA recurrences: a number is << n, d >>
\* with d > 0, in lowest terms.
RECURSIVE Gcd(_, _)
Gcd(a, b) == IF b = 0 THEN a ELSE Gcd(b, a % b)

Abs(a) == IF a < 0 THEN 0 - a ELSE a

Norm(n, d) ==
    LET g == Gcd(Abs(n), d)
    IN  << n \div g, d \div g >>

Rat(k) == << k, 1 >>

RAdd(x, y) ==
    LET l == (x[2] \div Gcd(x[2], y[2])) * y[2]
    IN  Norm(x[1] * (l \div x[2]) + y[1] * (l \div y[2]), l)

RNeg(x) == << 0 - x[1], x[2] >>

RSub(x, y) == RAdd(x, RNeg(y))

\* x * (a / b), for integers a and b > 0
RScale(x, a, b) ==
    LET g == Gcd(Abs(x[1]), b)
        h == Gcd(Abs(a), x[2])
    IN  Norm((x[1] \div g) * (a \div h), (x[2] \div h) * (b \div g))

\* Faulty variant of Ewm: the average is seeded with zero, not with the first value.
EwmZeroSeed(x, span) ==
    LET y[t \in 1..Len(x)] ==
            IF t = 1 THEN Rat(0)
            ELSE RAdd(RScale(y[t - 1], span - 1, span + 1), RScale(x[t], 2, span + 1))
    IN  [t \in 1..Len(x) |-> y[t]]

\* Series.ewm(span=span, adjust=False).mean():
\*   y[1] = x[1],  y[t] = (1 - alpha) * y[t-1] + alpha * x[t],  alpha = 2 / (span + 1)
Ewm(x, span) ==
    LET y[t \in 1..Len(x)] ==
            IF t = 1 THEN x[1]
            ELSE RAdd(RScale(y[t - 1], span - 1, span + 1), RScale(x[t], 2, span + 1))
    IN  [t \in 1..Len(x) |-> y[t]]

\* round(float(x), 3), in thousandths: the nearest multiple of 0.001, a tie
\* going to the even one.  (The float of an exact value differs from it far
\* below 0.0005, so only an exact tie could round differently.)
Round3(x) ==
    LET a == Abs(x[1])
        d == x[2]
        q == a \div d
        r0 == a % d
        d1 == (r0 * 10) \div d
        r1 == (r0 * 10) % d
        d2 == (r1 * 10) \div d
        r2 == (r1 * 10) % d
        d3 == (r2 * 10) \div d
        r3 == (r2 * 10) % d
        k == q * 1000 + d1 * 100 + d2 * 10 + d3
        up == IF 2 * r3 > d THEN 1
              ELSE IF 2 * r3 = d /\ k % 2 = 1 THEN 1
              ELSE 0
    IN  IF x[1] < 0 THEN 0 - (k + up) ELSE k + up

\* lines 56-67: the three MACD series of a non-empty closing-price series
MacdSeries(close_prices) ==
    LET x == [t \in 1..Len(close_prices) |-> Rat(close_prices[t])]
        ema12 == Ewm(x, 12)
        ema26 == Ewm(x, 26)
        dif == [t \in 1..Len(x) |-> RSub(ema12[t], ema26[t])]
        dea == Ewm(dif, 9)
        macd_hist == [t \in 1..Len(x) |-> RScale(RSub(dif[t], dea[t]), 2, 1)]
    IN  [dif |-> dif, dea |-> dea, macd_hist |-> macd_hist]

\* lines 65-67: the last values, rounded to 3 decimals (in thousandths)
MacdFields(close_prices) ==
    LET m == MacdSeries(close_prices)
        n == Len(close_prices)
    IN  [macd_dif |-> Round3(m.dif[n]), macd_dea |-> Round3(m.dea[n]),
         macd_hist |-> Round3(m.macd_hist[n])]

\* line 69
MacdZero == [macd_dif |-> 0, macd_dea |-> 0, macd_hist |-> 0]

\* Stock codes, as the characters of the string.
Codes == { << "6", "0", "0", "5", "1", "9" >>, << "0", "0", "0", "0", "0", "1" >>, << >> }

\* Closing prices of the daily bars returned by ak.stock_zh_a_hist.  Series
\* of up to three bars keep every denominator of the recurrences within
\* TLC's 32-bit integers.
Prices == {10, 11, 13}

Closes == UNION {[1..n -> Prices] : n \in {1, 2, 3}}

\* Constant series may be longer: their averages stay whole numbers.
ConstantCloses == UNION {[1..n -> {p}] : n \in 1..MaxConstLen, p \in Prices}

\* Messages of the exceptions the upstream calls raise.
Errors == {"timeout", "no data"}

\* A cell of the last fund-flow row: the column may be missing, hold a number,
\* or hold something float() rejects.
Cells == {[k |-> "absent", v |-> 0], [k |-> "num", v |-> 7], [k |-> "num", v |-> 0 - 5],
          [k |-> "bad", v |-> 0]}

\* line 74: market="sh" if code.startswith("6") else "sz"
Market(code) == IF Len(code) > 0 /\ code[1] = "6" THEN "sh" ELSE "sz"

\* lines 77-78: Series.get(column, 0.0)
GetOr0(cell) == IF cell.k = "absent" THEN 0 ELSE cell.v

\* line 85: HTTPException(500, "深度指标计算失败: " + str(e))
IndicatorError(m) ==
    [kind |-> "http_error", status |-> 500, detail |-> << "indicator computation failed", m >>]

\* line 87
PriceOk(r) == [kind |-> "price", status |-> 200, body |-> r]

\* lines 80 and 82
FundZero == [super_in |-> 0, large_in |-> 0]

\* Faulty variant of PriceRequest: the indicators are computed whatever detail is.
PriceRequestIgnoresDetail(code, detail) ==
    /\ UNCHANGED << cacheVars, retryVars, bundleVars, statsVars >>
    /\ ppc = "idle"
    /\ pargs' = [code |-> code, detail |-> detail]
    /\ result' = [code |-> code]
    /\ pcalls' = << >>
    /\ hist' = None
    /\ fund' = None
    /\ ppc' = "hist"
    /\ presp' = None

\* lines 43-50 (and 87 when detail is false)
PriceRequest(code, detail) ==
    /\ UNCHANGED << cacheVars, retryVars, bundleVars, statsVars >>
    /\ ppc = "idle"
    /\ pargs' = [code |-> code, detail |-> detail]
    /\ result' = [code |-> code]
    /\ pcalls' = << >>
    /\ hist' = None
    /\ fund' = None
    /\ IF detail
         THEN /\ ppc' = "hist"
              /\ presp' = None
         ELSE /\ ppc' = "done"
              /\ presp' = PriceOk([code |-> code])

\* Faulty variant of HistFail: the failure is swallowed and the MACD fields zeroed.
HistFailSwallowed(m) ==
    /\ UNCHANGED << cacheVars, retryVars, bundleVars, statsVars >>
    /\ ppc = "hist"
    /\ pcalls' = Append(pcalls, [fn |-> "stock_zh_a_hist", symbol |-> pargs.code])
    /\ hist' = [kind |-> "fail", msg |-> m]
    /\ result' = MacdZero @@ result
    /\ ppc' = "fund"
    /\ UNCHANGED << pargs, presp, fund >>

\* line 54 raises: the outer except clause (lines 84-85) answers HTTP 500.
HistFail(m) ==
    /\ UNCHANGED << cacheVars, retryVars, bundleVars, statsVars >>
    /\ ppc = "hist"
    /\ pcalls' = Append(pcalls, [fn |-> "stock_zh_a_hist", symbol |-> pargs.code])
    /\ hist' = [kind |-> "fail", msg |-> m]
    /\ presp' = IndicatorError(m)
    /\ ppc' = "done"
    /\ UNCHANGED << pargs, result, fund >>

\* line 54 returns bars without the close column: line 56 raises KeyError,
\* which the outer except clause turns into HTTP 500.
HistNoClose ==
    /\ UNCHANGED << cacheVars, retryVars, bundleVars, statsVars >>
    /\ ppc = "hist"
    /\ pcalls' = Append(pcalls, [fn |-> "stock_zh_a_hist", symbol |-> pargs.code])
    /\ hist' = [kind |-> "no_close", msg |-> "KeyError"]
    /\ presp' = IndicatorError("KeyError")
    /\ ppc' = "done"
    /\ UNCHANGED << pargs, result, fund >>

\* Faulty variant of HistEmpty: no emptiness test, so iloc[-1] of line 65
\* raises on the empty series and the outer except clause answers HTTP 500.
HistEmptyIndexed ==
    /\ UNCHANGED << cacheVars, retryVars, bundleVars, statsVars >>
    /\ ppc = "hist"
    /\ pcalls' = Append(pcalls, [fn |-> "stock_zh_a_hist", symbol |-> pargs.code])
    /\ hist' = [kind |-> "empty"]
    /\ presp' = IndicatorError("IndexError")
    /\ ppc' = "done"
    /\ UNCHANGED << pargs, result, fund >>

\* lines 54-55 and 68-69: an empty history
HistEmpty ==
    /\ UNCHANGED << cacheVars, retryVars, bundleVars, statsVars >>
    /\ ppc = "hist"
    /\ pcalls' = Append(pcalls, [fn |-> "stock_zh_a_hist", symbol |-> pargs.code])
    /\ hist' = [kind |-> "empty"]
    /\ result' = MacdZero @@ result
    /\ ppc' = "fund"
    /\ UNCHANGED << pargs, presp, fund >>

\* lines 54-67: a history with closing prices
HistBars(close_prices) ==
    /\ UNCHANGED << cacheVars, retryVars, bundleVars, statsVars >>
    /\ ppc = "hist"
    /\ pcalls' = Append(pcalls, [fn |-> "stock_zh_a_hist", symbol |-> pargs.code])
    /\ hist' = [kind |-> "bars", close |-> close_prices]
    /\ result' = MacdFields(close_prices) @@ result
    /\ ppc' = "fund"
    /\ UNCHANGED << pargs, presp, fund >>

\* Faulty variant of FundFail: no inner try, the failure reaches the outer except clause.
FundFailAborts(m) ==
    /\ UNCHANGED << cacheVars, retryVars, bundleVars, statsVars >>
    /\ ppc = "fund"
    /\ pcalls' = Append(pcalls, [fn |-> "stock_individual_fund_flow", stock |-> pargs.code,
                                 market |-> Market(pargs.code)])
    /\ fund' = [kind |-> "fail", msg |-> m]
    /\ presp' = IndicatorError(m)
    /\ ppc' = "done"
    /\ UNCHANGED << pargs, result, hist >>

\* line 74 raises: the bare except of lines 81-82 zeroes both fields, and
\* line 87 returns the result.
FundFail(m) ==
    /\ UNCHANGED << cacheVars, retryVars, bundleVars, statsVars >>
    /\ ppc = "fund"
    /\ pcalls' = Append(pcalls, [fn |-> "stock_individual_fund_flow", stock |-> pargs.code,
                                 market |-> Market(pargs.code)])
    /\ fund' = [kind |-> "fail", msg |-> m]
    /\ result' = FundZero @@ result
    /\ presp' = PriceOk(result')
    /\ ppc' = "done"
    /\ UNCHANGED << pargs, hist >>

\* lines 74-75 and 79-80: an empty fund-flow frame
FundEmpty ==
    /\ UNCHANGED << cacheVars, retryVars, bundleVars, statsVars >>
    /\ ppc = "fund"
    /\ pcalls' = Append(pcalls, [fn |-> "stock_individual_fund_flow", stock |-> pargs.code,
                                 market |-> Market(pargs.code)])
    /\ fund' = [kind |-> "empty"]
    /\ result' = FundZero @@ result
    /\ presp' = PriceOk(result')
    /\ ppc' = "done"
    /\ UNCHANGED << pargs, hist >>

\* lines 74-78, 81-82: the last row of a non-empty frame; a cell float()
\* rejects raises inside the inner try, and both fields are zeroed.
FundRow(super, large) ==
    /\ UNCHANGED << cacheVars, retryVars, bundleVars, statsVars >>
    /\ ppc = "fund"
    /\ pcalls' = Append(pcalls, [fn |-> "stock_individual_fund_flow", stock |-> pargs.code,
                                 market |-> Market(pargs.code)])
    /\ fund' = [kind |-> "row", super |-> super, large |-> large]
    /\ result' = IF super.k = "bad" \/ large.k = "bad"
                   THEN FundZero @@ result
                   ELSE [super_in |-> GetOr0(super), large_in |-> GetOr0(large)] @@ result
    /\ presp' = PriceOk(result')
    /\ ppc' = "done"
    /\ UNCHANGED << pargs, hist >>

\* The response has been sent.
PriceFinish ==
    /\ UNCHANGED << cacheVars, retryVars, bundleVars, statsVars >>
    /\ ppc = "done"
    /\ ppc' = "idle"
    /\ pargs' = None
    /\ result' = None
    /\ presp' = None
    /\ pcalls' = << >>
    /\ hist' = None
    /\ fund' = None

NextPrice ==
    \/ \E code \in Codes, detail \in BOOLEAN : PriceRequest(code, detail)
    \/ \E m \in Errors : HistFail(m)
    \/ HistNoClose
    \/ HistEmpty
    \/ \E c \in Closes \cup ConstantCloses : HistBars(c)
    \/ \E m \in Errors : FundFail(m)
    \/ FundEmpty
    \/ \E super \in Cells, large \in Cells : FundRow(super, large)
    \/ PriceFinish

SpecPrice == Init /\ [][NextPrice]_vars

\* ------------------------------------------------------------ Retry Wrapper
\* The wrapper of the per-symbol bundle endpoint (spec.md 4.1).
max_retries == 3

retry_delay == 10

\* Failure messages and results of the wrapped upstream call.
Messages == {"timeout", "connection reset", "bad gateway"}

Values == {"quotes", "bars"}

Failure(m) == [ok |-> FALSE, msg |-> m]

Success(v) == [ok |-> TRUE, value |-> v]

\* The terminal error: it carries the attempt count and the last failure's message.
RetryError(n, m) == [ok |-> FALSE, attempts |-> n, msg |-> m]

RetryStart ==
    /\ UNCHANGED << cacheVars, priceVars, bundleVars, statsVars >>
    /\ rpc = "idle"
    /\ rpc' = "call"
    /\ attempt' = 0
    /\ delays' = 0
    /\ rlog' = << >>
    /\ trace' = << >>
    /\ rresult' = None

\* A success returns at once: no further attempt.
AttemptOk(v) ==
    /\ UNCHANGED << cacheVars, priceVars, bundleVars, statsVars >>
    /\ rpc = "call"
    /\ attempt' = attempt + 1
    /\ trace' = Append(trace, Success(v))
    /\ rresult' = Success(v)
    /\ rpc' = "done"
    /\ UNCHANGED << delays, rlog >>

\* Faulty variant of AttemptFail: gives up one attempt early.
AttemptFailGivesUpEarly(m) ==
    /\ UNCHANGED << cacheVars, priceVars, bundleVars, statsVars >>
    /\ rpc = "call"
    /\ attempt' = attempt + 1
    /\ trace' = Append(trace, Failure(m))
    /\ IF attempt + 1 < max_retries - 1
         THEN /\ rlog' = Append(rlog, [attempt |-> attempt + 1, msg |-> m])
              /\ rpc' = "sleep"
              /\ UNCHANGED rresult
         ELSE /\ rresult' = RetryError(attempt + 1, m)
              /\ rpc' = "done"
              /\ UNCHANGED rlog
    /\ UNCHANGED delays

\* Faulty variant of AttemptFail: retries at once, without the delay.
AttemptFailNoDelay(m) ==
    /\ UNCHANGED << cacheVars, priceVars, bundleVars, statsVars >>
    /\ rpc = "call"
    /\ attempt' = attempt + 1
    /\ trace' = Append(trace, Failure(m))
    /\ IF attempt + 1 < max_retries
         THEN /\ rlog' = Append(rlog, [attempt |-> attempt + 1, msg |-> m])
              /\ rpc' = "call"
              /\ UNCHANGED rresult
         ELSE /\ rresult' = RetryError(max_retries, m)
              /\ rpc' = "done"
              /\ UNCHANGED rlog
    /\ UNCHANGED delays

\* A failure before the last attempt is logged and followed by the delay; the
\* failure of the last attempt ends the wrapper with the terminal error.
AttemptFail(m) ==
    /\ UNCHANGED << cacheVars, priceVars, bundleVars, statsVars >>
    /\ rpc = "call"
    /\ attempt' = attempt + 1
    /\ trace' = Append(trace, Failure(m))
    /\ IF attempt + 1 < max_retries
         THEN /\ rlog' = Append(rlog, [attempt |-> attempt + 1, msg |-> m])
              /\ rpc' = "sleep"
              /\ UNCHANGED rresult
         ELSE /\ rresult' = RetryError(max_retries, m)
              /\ rpc' = "done"
              /\ UNCHANGED rlog
    /\ UNCHANGED delays

\* The fixed delay (retry_delay seconds) between two attempts.
Sleep ==
    /\ UNCHANGED << cacheVars, priceVars, bundleVars, statsVars >>
    /\ rpc = "sleep"
    /\ delays' = delays + 1
    /\ rpc' = "call"
    /\ UNCHANGED << attempt, rlog, trace, rresult >>

\* The caller has the result; the wrapper may be called again.
RetryFinish ==
    /\ UNCHANGED << cacheVars, priceVars, bundleVars, statsVars >>
    /\ rpc = "done"
    /\ rpc' = "idle"
    /\ UNCHANGED << attempt, delays, rlog, trace, rresult >>

NextRetry ==
    \/ RetryStart
    \/ \E v \in Values : AttemptOk(v)
    \/ \E m \in Messages : AttemptFail(m)
    \/ Sleep
    \/ RetryFinish

SpecRetry == Init /\ [][NextRetry]_vars

\* ------------------------------------------- per-symbol bundle endpoint
\* GET /api/stock/{code} (spec.md 4.4 and 6): the Retry Wrapper around the
\* realtime-snapshot lookup for one symbol, then around the history fetch.
history_bars == 250

BundleCodes == {"600519", "000001", "999999"}

\* The symbols a realtime snapshot may hold.
Snapshots == { {"600519", "000001"}, {"600519"}, {} }

\* Numbers of daily bars in a symbol's listed history.
HistSizes == {0, 1, 250, 251, 300}

NotFound(code) == [kind |-> "http_error", status |-> 404, detail |-> code]

\* HTTP 500 with the terminal error of the Retry Wrapper
UpstreamError(err) ==
    [kind |-> "http_error", status |-> 500, detail |-> << err.attempts, err.msg >>]

\* The most recent history_bars bars of n, as the range of their indices.
LastBars(n) == [first |-> Max(1, n - history_bars + 1), last |-> n]

Bundle(code, bars) ==
    [kind |-> "bundle", status |-> 200, info |-> [code |-> code], history |-> bars]

\* The wrapper is entered for a wrapped call.
CallWithRetry ==
    /\ rpc' = "call"
    /\ attempt' = 0
    /\ delays' = 0
    /\ rlog' = << >>
    /\ trace' = << >>
    /\ rresult' = None

BundleRequest(code) ==
    /\ UNCHANGED << cacheVars, priceVars, statsVars >>
    /\ bpc = "idle"
    /\ rpc = "idle"
    /\ bpc' = "realtime"
    /\ bcode' = code
    /\ bsnap' = None
    /\ bbars' = None
    /\ bresp' = None
    /\ CallWithRetry

\* Faulty variant of BundleRealtime: an absent symbol is looked up as if it
\* were there, and the lookup error is answered as a server error.
BundleRealtimeCrashes(snap) ==
    /\ UNCHANGED << cacheVars, priceVars, statsVars >>
    /\ bpc = "realtime"
    /\ rpc = "done"
    /\ IF ~rresult.ok
         THEN /\ bresp' = UpstreamError(rresult)
              /\ bpc' = "done"
              /\ rpc' = "idle"
              /\ UNCHANGED << bsnap, attempt, delays, rlog, trace, rresult >>
         ELSE /\ bsnap' = [codes |-> snap]
              /\ IF bcode \notin snap
                   THEN /\ bresp' = [kind |-> "http_error", status |-> 500, detail |-> bcode]
                        /\ bpc' = "done"
                        /\ rpc' = "idle"
                        /\ UNCHANGED << attempt, delays, rlog, trace, rresult >>
                   ELSE /\ bpc' = "history"
                        /\ CallWithRetry
                        /\ UNCHANGED bresp
    /\ UNCHANGED << bcode, bbars >>

\* The wrapper has ended for the realtime lookup: its terminal error is
\* answered HTTP 500; a snapshot without the symbol is answered HTTP 404;
\* otherwise the history fetch is started.
BundleRealtime(snap) ==
    /\ UNCHANGED << cacheVars, priceVars, statsVars >>
    /\ bpc = "realtime"
    /\ rpc = "done"
    /\ IF ~rresult.ok
         THEN /\ bresp' = UpstreamError(rresult)
              /\ bpc' = "done"
              /\ rpc' = "idle"
              /\ UNCHANGED << bsnap, attempt, delays, rlog, trace, rresult >>
         ELSE /\ bsnap' = [codes |-> snap]
              /\ IF bcode \notin snap
                   THEN /\ bresp' = NotFound(bcode)
                        /\ bpc' = "done"
                        /\ rpc' = "idle"
                        /\ UNCHANGED << attempt, delays, rlog, trace, rresult >>
                   ELSE /\ bpc' = "history"
                        /\ CallWithRetry
                        /\ UNCHANGED bresp
    /\ UNCHANGED << bcode, bbars >>

\* The wrapper has ended for the history fetch: the history is cut to its
\* most recent history_bars bars and the bundle is returned.
BundleHistory(n) ==
    /\ UNCHANGED << cacheVars, priceVars, statsVars >>
    /\ bpc = "history"
    /\ rpc = "done"
    /\ IF ~rresult.ok
         THEN /\ bresp' = UpstreamError(rresult)
              /\ UNCHANGED bbars
         ELSE /\ bbars' = [n |-> n]
              /\ bresp' = Bundle(bcode, LastBars(n))
    /\ bpc' = "done"
    /\ rpc' = "idle"
    /\ UNCHANGED << bcode, bsnap, attempt, delays, rlog, trace, rresult >>

\* The response has been sent.
BundleFinish ==
    /\ UNCHANGED << cacheVars, retryVars, priceVars, statsVars >>
    /\ bpc = "done"
    /\ bpc' = "idle"
    /\ bcode' = None
    /\ bsnap' = None
    /\ bbars' = None
    /\ bresp' = None

NextBundle ==
    \/ \E code \in BundleCodes : BundleRequest(code)
    \/ \E v \in Values : AttemptOk(v)
    \/ \E m \in Messages : AttemptFail(m)
    \/ Sleep
    \/ \E snap \in Snapshots : BundleRealtime(snap)
    \/ \E n \in HistSizes : BundleHistory(n)
    \/ BundleFinish

SpecBundle == Init /\ [][NextBundle]_vars

\* ------------------------------------------------------------ market_stats
\* line 127; the message text is a fixed literal, written here in English
StatsOk == [kind |-> "stats", status |-> 200,
            body |-> [status |-> "ok", message |-> "data engine online"]]

\* lines 125-127
MarketStats ==
    /\ UNCHANGED << cacheVars, retryVars, priceVars, bundleVars >>
    /\ sresp = None
    /\ sresp' = StatsOk

\* The response has been sent.
StatsFinish ==
    /\ UNCHANGED << cacheVars, retryVars, priceVars, bundleVars >>
    /\ sresp # None
    /\ sresp' = None

\* ------------------------------------------------------- the three routes
\* get_rps_top requests one at a time, with get_stock_price and market_stats
\* requests served in between their steps.  The inputs are kept to a few
\* cases: the full sets are varied by SpecSeq and SpecPrice.
NextApp ==
    \/ \E t \in Threads : RequestAlone(t)
    \/ \E t \in Threads : CheckMd(t)
    \/ \E t \in Threads : CheckLu(t)
    \/ \E t \in Threads : \E f \in {FrameA, FrameB} : FetchOk(t, f)
    \/ \E t \in Threads : FetchFail(t)
    \/ \E t \in Threads : StoreLu(t)
    \/ \E t \in Threads : \E period \in {60, 61} : Rank(t, period, 2)
    \/ \E t \in Threads : Finish(t)
    \/ Tick
    \/ \E detail \in BOOLEAN : PriceRequest(<< "6", "0", "0", "5", "1", "9" >>, detail)
    \/ HistFail("timeout")
    \/ HistNoClose
    \/ HistEmpty
    \/ HistBars(<< 10, 11 >>)
    \/ FundFail("timeout")
    \/ FundEmpty
    \/ FundRow([k |-> "num", v |-> 7], [k |-> "absent", v |-> 0])
    \/ PriceFinish
    \/ MarketStats
    \/ StatsFinish

SpecApp == Init /\ [][NextApp]_vars

\* ================================================================ claims
\* The request of thread t has been answered.
Answered(t) == pc[t] = "done"

\* The cache held a snapshot when the request of thread t started.
HadSnapshot(t) == cache0[t].market_data # None

\* Seconds between the cached timestamp at the start of t's request and the
\* clock value the request read.
Elapsed(t) == current_time[t] - cache0[t].last_update

\* C1: a read made while a snapshot is stored and at most cache_duration
\* seconds old issues no upstream call and returns the stored snapshot object
\* itself, which is still the cached one.
C1_FreshReadServedFromCache ==
    \A t \in Threads :
        (pc[t] # "idle" /\ HadSnapshot(t) /\ Elapsed(t) <= cache_duration) =>
            /\ ncalls[t] = 0
            /\ outcome[t] = "none"
            /\ pc[t] # "fetch"
            /\ Answered(t) => /\ df[t] = cache0[t].market_data
                              /\ df[t] = CACHE.market_data
                              /\ resp[t] # DataSourceError

C1_Witness ==
    \E t \in Threads :
        /\ Answered(t) /\ HadSnapshot(t)
        /\ Elapsed(t) = cache_duration
        /\ ncalls[t] = 0
        /\ df[t] = cache0[t].market_data

\* C2: served one at a time, a read made when a snapshot is stored that is
\* more than cache_duration seconds old issues exactly one upstream call,
\* whether the call succeeds or fails.
C2_ExpiredReadFetchesOnce ==
    \A t \in Threads :
        /\ ncalls[t] <= 1
        /\ (Answered(t) /\ HadSnapshot(t) /\ Elapsed(t) > cache_duration) =>
              /\ ncalls[t] = 1
              /\ outcome[t] \in {"ok", "fail"}

C2_Witness ==
    \E t \in Threads :
        /\ Answered(t) /\ HadSnapshot(t)
        /\ Elapsed(t) = cache_duration + 1
        /\ outcome[t] = "fail"
        /\ df[t] = cache0[t].market_data

\* C3: when the refresh fails and a snapshot was stored, the read raises no
\* error, returns that snapshot, and leaves market_data and last_update as
\* they were.
C3_FailedRefreshServesStale ==
    \A t \in Threads :
        (Answered(t) /\ outcome[t] = "fail" /\ HadSnapshot(t)) =>
            /\ resp[t] # DataSourceError
            /\ resp[t].status = 200
            /\ df[t] = cache0[t].market_data
            /\ CACHE = cache0[t]

C3_Witness ==
    \E t \in Threads :
        /\ Answered(t) /\ outcome[t] = "fail" /\ HadSnapshot(t)
        /\ resp[t].kind = "ranking"
        /\ df[t] = cache0[t].market_data

\* C4: when nothing was ever fetched and the upstream call fails, the read
\* fails with the HTTP 500 data-source error, returns nothing, and the cache
\* stays empty with last_update unchanged.
C4_FailedFirstFetchIsError ==
    \A t \in Threads :
        (Answered(t) /\ outcome[t] = "fail" /\ ~HadSnapshot(t)) =>
            /\ resp[t] = DataSourceError
            /\ resp[t].status = 500
            /\ df[t] = None
            /\ CACHE.market_data = None
            /\ CACHE.last_update = cache0[t].last_update
            /\ CACHE.last_update = 0

C4_Witness ==
    \E t \in Threads :
        /\ Answered(t) /\ outcome[t] = "fail" /\ ~HadSnapshot(t)
        /\ reqId[t] > 1
        /\ resp[t].status = 500

\* C5: with concurrent callers at most one upstream snapshot call is in
\* progress at any time, and no call is in progress for a reader for whom the
\* stored snapshot is fresh (one fetch per expiry window).
C5_RefreshesSerialized ==
    /\ Cardinality({t \in Threads : pc[t] = "fetch"}) <= 1
    /\ \A t \in Threads :
          pc[t] = "fetch" =>
              \/ CACHE.market_data = None
              \/ current_time[t] - CACHE.last_update > cache_duration

\* The ranking column the endpoint is to use for a period.
RankingColumn(period) == IF period <= 60 THEN "chg60" ELSE "chgYTD"

\* The ranking response of thread t lists exactly the k best rows of the
\* snapshot it read, best first, none of them with a missing value.
ListsTopRows(t, k) ==
    LET col == RankingColumn(args[t].period)
        rows == df[t].rows
        valid == {i \in 1..Len(rows) : rows[i][col] # NaN}
        top == resp[t].top_stocks
        shown == {top[j].code : j \in 1..Len(top)}
    IN  /\ Len(top) = k
        /\ resp[t].count = Len(top)
        /\ resp[t].period = args[t].period
        /\ \A j \in 1..Len(top) :
              \E i \in valid : /\ rows[i].code = top[j].code
                               /\ rows[i].name = top[j].name
                               /\ rows[i][col][1] = top[j].increase_rate
        /\ \A j1, j2 \in 1..Len(top) :
              /\ j1 < j2 => top[j1].increase_rate >= top[j2].increase_rate
              /\ j1 # j2 => top[j1].code # top[j2].code
        /\ \A i \in valid :
              rows[i].code \notin shown =>
                  \A j \in 1..Len(top) : top[j].increase_rate >= rows[i][col][1]

\* C10: get_rps_top ranks on the 60-day column for period <= 60 and on the
\* year-to-date column otherwise, and returns exactly the first
\* min(limit, number of rows with a value in that column) rows in descending
\* order of that column, none with a missing value, with count the number of
\* rows returned.
C10_RankingTopN ==
    \A t \in Threads :
        (Answered(t) /\ resp[t].kind = "ranking") =>
            LET col == RankingColumn(args[t].period)
                n == Cardinality({i \in 1..Len(df[t].rows) : df[t].rows[i][col] # NaN})
            IN  ListsTopRows(t, Max(0, Min(args[t].limit, n)))

\* The upstream call's outcomes so far are failures at attempts 1..n.
FailedFirst(n) ==
    /\ Len(trace) >= n
    /\ \A i \in 1..n : ~trace[i].ok

\* Seconds spent in the fixed delays.
Slept == delays * retry_delay

\* C8: when the upstream call fails twice and then succeeds, the wrapper
\* returns that success after exactly two fixed delays, and it never makes an
\* attempt after a success.
C8_TwoFailuresThenSuccess ==
    /\ \A i \in 1..Len(trace) : trace[i].ok => (i = Len(trace) /\ rpc \in {"done", "idle"})
    /\ (rpc = "done" /\ Len(trace) = 3 /\ FailedFirst(2) /\ trace[3].ok) =>
          /\ rresult = Success(trace[3].value)
          /\ attempt = 3
          /\ delays = 2
          /\ Slept = 2 * retry_delay

C8_Witness ==
    /\ rpc = "done"
    /\ Len(trace) = 3 /\ FailedFirst(2) /\ trace[3].ok
    /\ rresult.ok
    /\ delays = 2

\* C9: when the upstream call fails on all 3 attempts, the wrapper makes
\* exactly 3 attempts and fails with an error that reports 3 attempts and
\* carries the last failure's message.
C9_AllAttemptsFail ==
    /\ attempt <= max_retries
    /\ attempt = Len(trace)
    /\ (rpc = "done" /\ ~rresult.ok) =>
          /\ attempt = 3
          /\ FailedFirst(3)
          /\ rresult = RetryError(3, trace[3].msg)
    /\ (FailedFirst(3)) => (rpc \in {"done", "idle"} /\ ~rresult.ok /\ Len(trace) = 3)

C9_Witness ==
    /\ rpc = "done"
    /\ FailedFirst(3)
    /\ trace[1].msg # trace[3].msg
    /\ rresult.attempts = 3
    /\ rresult.msg = trace[3].msg

\* A detail=true request of get_stock_price has been answered.
DetailAnswered == ppc = "done" /\ pargs.detail

\* The MACD fields lines 54-69 compute from what the history call returned.
ComputedMacd == IF hist.kind = "empty" THEN MacdZero ELSE MacdFields(hist.close)

\* C6: with detail=true, a failed or empty fund-flow fetch does not abort the
\* request: it is answered successfully with super_in = 0.0 and
\* large_in = 0.0, and the MACD fields computed before are kept.
C6_FundFlowFailureDefaultsToZero ==
    (DetailAnswered /\ fund # None /\ fund.kind \in {"fail", "empty"}) =>
        /\ presp.kind = "price"
        /\ presp.status = 200
        /\ presp.body.code = pargs.code
        /\ presp.body.super_in = 0
        /\ presp.body.large_in = 0
        /\ presp.body.macd_dif = ComputedMacd.macd_dif
        /\ presp.body.macd_dea = ComputedMacd.macd_dea
        /\ presp.body.macd_hist = ComputedMacd.macd_hist

C6_Witness ==
    /\ DetailAnswered
    /\ fund # None /\ fund.kind = "fail"
    /\ hist.kind = "bars"
    /\ presp.status = 200
    /\ presp.body.super_in = 0
    /\ presp.body.macd_dif # 0

\* C7 as claimed: with detail=true, a failure of the history fetch or of the
\* MACD computation is swallowed, the three MACD fields are zero and the
\* request succeeds.
C7_HistoryFailureSwallowed ==
    (DetailAnswered /\ hist # None /\ hist.kind \in {"fail", "no_close"}) =>
        /\ presp.status = 200
        /\ presp.body.macd_dif = 0
        /\ presp.body.macd_dea = 0
        /\ presp.body.macd_hist = 0

\* C7 amended: with detail=true, a failure of the history fetch or of the
\* MACD computation is not swallowed: the request fails with HTTP 500 whose
\* detail carries the failure's message, and the fund-flow fetch is not made.
C7_HistoryFailureAborts ==
    (DetailAnswered /\ hist # None /\ hist.kind \in {"fail", "no_close"}) =>
        /\ presp = IndicatorError(hist.msg)
        /\ presp.status = 500
        /\ fund = None
        /\ Len(pcalls) = 1

C7_Witness ==
    /\ DetailAnswered
    /\ hist # None /\ hist.kind = "fail"
    /\ presp.status = 500

\* C11: the per-symbol bundle endpoint called with a code that is absent from
\* the realtime snapshot answers HTTP 404, not a server error and not a
\* success payload, and does not go on to fetch the history.
C11_AbsentCodeIsNotFound ==
    (bpc = "done" /\ bsnap # None /\ bcode \notin bsnap.codes) =>
        /\ bresp.kind = "http_error"
        /\ bresp.status = 404
        /\ bbars = None

C11_Witness ==
    /\ bpc = "done"
    /\ bsnap = [codes |-> {"600519"}]
    /\ bcode = "999999"
    /\ bresp.status = 404

\* C12: with detail=true and an empty history, macd_dif, macd_dea and
\* macd_hist are all 0.0 and the request is answered successfully.
C12_EmptyHistoryGivesZeroMacd ==
    (DetailAnswered /\ hist # None /\ hist.kind = "empty") =>
        /\ presp.kind = "price"
        /\ presp.status = 200
        /\ presp.body.macd_dif = 0
        /\ presp.body.macd_dea = 0
        /\ presp.body.macd_hist = 0

C12_Witness ==
    /\ DetailAnswered
    /\ hist # None /\ hist.kind = "empty"
    /\ fund.kind = "row"
    /\ presp.status = 200
    /\ presp.body.macd_hist = 0
    /\ presp.body.super_in = 7

\* The closing prices of the fetched history are all the same.
ConstantHistory ==
    /\ hist # None
    /\ hist.kind = "bars"
    /\ \A i \in 1..Len(hist.close) : hist.close[i] = hist.close[1]

\* C13: for a constant closing-price series of any non-zero length the MACD
\* recurrence gives dif = dea = hist = 0 at every timestep, and the three
\* reported values are 0.0.
C13_ConstantSeriesGivesZeroMacd ==
    ConstantHistory =>
        /\ LET m == MacdSeries(hist.close)
           IN  \A i \in 1..Len(hist.close) :
                  /\ m.dif[i] = Rat(0)
                  /\ m.dea[i] = Rat(0)
                  /\ m.macd_hist[i] = Rat(0)
        /\ result.macd_dif = 0
        /\ result.macd_dea = 0
        /\ result.macd_hist = 0
        /\ ppc = "done" => /\ presp.status = 200
                           /\ presp.body.macd_dif = 0
                           /\ presp.body.macd_dea = 0
                           /\ presp.body.macd_hist = 0

C13_Witness ==
    /\ ConstantHistory
    /\ Len(hist.close) = MaxConstLen
    /\ ppc = "done"
    /\ presp.body.macd_dif = 0

\* The request of thread t read a snapshot that lacks the ranking column of
\* its period.
ColumnMissing(t) ==
    /\ Answered(t)
    /\ df[t] # None
    /\ RankingColumn(args[t].period) \notin df[t].cols

\* C14 as claimed: when the selected ranking column is absent from the
\* snapshot, get_rps_top answers with a 4xx client error, not with a
\* successful response.
C14_MissingColumnIsClientError ==
    \A t \in Threads :
        ColumnMissing(t) => (resp[t].status >= 400 /\ resp[t].status <= 499)

\* C14 amended: when the selected ranking column is absent from the
\* snapshot, get_rps_top returns at once an ordinary HTTP 200 response whose
\* body is an error object naming the missing column, and ranks nothing.
C14_MissingColumnIsErrorBody ==
    \A t \in Threads :
        ColumnMissing(t) =>
            /\ resp[t].kind = "missing_column"
            /\ resp[t].status = 200
            /\ resp[t].error = RankingColumn(args[t].period)
            /\ DOMAIN resp[t] = {"kind", "status", "error"}

C14_Witness ==
    \E t \in Threads :
        /\ ColumnMissing(t)
        /\ args[t].period = 61
        /\ resp[t].error = "chgYTD"
        /\ resp[t].status = 200

\* C15: a read attempts an upstream fetch exactly when no snapshot is stored
\* or the stored one is more than cache_duration seconds old (exactly
\* cache_duration is still served from the cache); when the fetch succeeds the
\* stored snapshot is replaced by the whole fetched one, last_update becomes
\* the time read at the start of the call, and the call returns the new
\* snapshot.
C15_FetchIffAbsentOrExpired ==
    \A t \in Threads :
        Answered(t) =>
            /\ (ncalls[t] = 1) <=> (~HadSnapshot(t) \/ Elapsed(t) > cache_duration)
            /\ (ncalls[t] = 0) <=> (HadSnapshot(t) /\ Elapsed(t) <= cache_duration)
            /\ outcome[t] = "ok" =>
                  /\ CACHE.market_data.id = reqId[t]
                  /\ CACHE.market_data # cache0[t].market_data
                  /\ [cols |-> CACHE.market_data.cols, rows |-> CACHE.market_data.rows] \in Frames
                  /\ CACHE.last_update = current_time[t]
                  /\ CACHE.cache_duration = cache0[t].cache_duration
                  /\ df[t] = CACHE.market_data

C15_Witness ==
    \E t \in Threads :
        /\ Answered(t)
        /\ HadSnapshot(t)
        /\ Elapsed(t) = cache_duration + 1
        /\ outcome[t] = "ok"
        /\ CACHE.last_update = current_time[t]
        /\ df[t].id = reqId[t]
        /\ df[t].rows # cache0[t].market_data.rows

\* Thread t takes a step of get_cached_market_data that assigns to CACHE
\* (line 33 or line 34).
CacheWrite(t) ==
    \/ pc[t] = "fetch" /\ pc'[t] = "store_lu"
    \/ pc[t] = "store_lu" /\ pc'[t] = "ret"

\* C16: CACHE is changed only by the assignments of get_cached_market_data:
\* no step of get_stock_price or market_stats changes it, the ranking of
\* get_rps_top (filtering, sorting, truncation) leaves the stored snapshot
\* as it is, and cache_duration never changes.
C16_CacheChangedOnlyByCacheRead ==
    /\ [](CACHE.cache_duration = cache_duration)
    /\ [][(priceVars' # priceVars \/ statsVars' # statsVars) => CACHE' = CACHE]_vars
    /\ [][\A t \in Threads : (pc[t] = "ret" /\ pc'[t] = "done") => CACHE' = CACHE]_vars
    /\ [][CACHE' # CACHE => \E t \in Threads : CacheWrite(t)]_vars

C16_Witness ==
    /\ CACHE.market_data # None
    /\ CACHE.market_data.rows = FrameA.rows
    /\ \E t \in Threads : /\ Answered(t)
                          /\ resp[t].kind = "ranking"
                          /\ resp[t].count = 2
                          /\ resp[t].top_stocks[1].code = "s3"
    /\ ppc = "done" /\ presp.status = 200
    /\ sresp = StatsOk

\* The request of thread t fetched the snapshot now stored and has passed
\* its own assignment of last_update (line 34).
StoredBy(t) ==
    /\ CACHE.market_data # None
    /\ CACHE.market_data.id = reqId[t]
    /\ pc[t] \in {"ret", "done"}

\* C17, first two parts: a stored snapshot never reverts to absent, and the
\* snapshot is absent only while last_update is still 0.
C17_SnapshotStays ==
    /\ [][CACHE.market_data # None => CACHE'.market_data # None]_vars
    /\ [](CACHE.market_data = None => CACHE.last_update = 0)

\* C17, third part: with a clock that never goes back, last_update never
\* decreases.
C17_LastUpdateMonotonic ==
    [][now' >= now => CACHE'.last_update >= CACHE.last_update]_vars

\* C17, fourth part: last_update is the call-start time of the fetch that
\* produced the stored snapshot (looked at once that fetch has stored both).
C17_LastUpdateIsFetchStart ==
    \A t \in Threads : StoredBy(t) => CACHE.last_update = current_time[t]

\* C17: in every reachable state, concurrent calls included, the stored
\* snapshot never reverts to absent, it is absent only while last_update is
\* 0, last_update never decreases, and last_update is the call-start time of
\* the fetch that produced the stored snapshot.
C17_CacheInvariants ==
    /\ C17_SnapshotStays
    /\ C17_LastUpdateMonotonic
    /\ [](C17_LastUpdateIsFetchStart)

\* The fields of a response body that carry MACD or fund-flow values.
IndicatorFields == {"macd_dif", "macd_dea", "macd_hist", "super_in", "large_in"}

\* C18: get_stock_price with detail=false makes no upstream call, cannot
\* fail, and answers with a body holding only the requested code; MACD and
\* fund-flow fields are in a body only when detail=true.
C18_PlainPriceIsCodeOnly ==
    /\ (ppc # "idle" /\ ~pargs.detail) =>
          /\ ppc = "done"
          /\ pcalls = << >>
          /\ hist = None /\ fund = None
          /\ presp.kind = "price"
          /\ presp.status = 200
          /\ presp.body = [code |-> pargs.code]
          /\ DOMAIN presp.body = {"code"}
    /\ (ppc = "done" /\ presp.kind = "price"
            /\ DOMAIN presp.body \cap IndicatorFields # {}) => pargs.detail

C18_Witness ==
    /\ ppc = "done"
    /\ ~pargs.detail
    /\ pargs.code = << "0", "0", "0", "0", "0", "1" >>
    /\ presp = PriceOk([code |-> << "0", "0", "0", "0", "0", "1" >>])
    /\ pcalls = << >>

====
